---- MODULE Spec2Model ----
(***************************************************************************)
(* Model of tether-router-monitor (main.go): the scheduling loop of main,  *)
(* one collection cycle per ticker tick, and the pure helpers it calls.    *)
(*                                                                         *)
(* Go strings on which the code performs character operations (device      *)
(* names, duration texts, credentials, header values) are sequences of     *)
(* one-character strings.  Strings that are only compared for equality     *)
(* (interface names, status, tracking, the push URL) are TLA+ strings.     *)
(***************************************************************************)
EXTENDS Integers, Sequences, FiniteSets, TLC

\* ------------------------------------------------------------------ bounds
\* Largest number of colon-separated segments of a generated duration text.
MaxParts == 3
\* Longest inventory list generated for the merge harness.
MaxInv == 2
\* Longest failover-status list generated for the merge harness.
MaxStat == 2
\* Largest reading of the wall clock (time.Now) in the model.
MaxClock == 1

\* ------------------------------------------------------- string primitives
Digits == {"0", "1", "2", "3", "4", "5", "6", "7", "8", "9"}

DigitVal(c) ==
  CASE c = "0" -> 0 [] c = "1" -> 1 [] c = "2" -> 2 [] c = "3" -> 3
    [] c = "4" -> 4 [] c = "5" -> 5 [] c = "6" -> 6 [] c = "7" -> 7
    [] c = "8" -> 8 [] c = "9" -> 9

RECURSIVE DecVal(_)
DecVal(s) ==
  IF s = <<>> THEN 0
  ELSE 10 * DecVal(SubSeq(s, 1, Len(s) - 1)) + DigitVal(s[Len(s)])

\* strings.Split(s, ":")
RECURSIVE Split(_)
Split(s) ==
  IF \A i \in 1..Len(s) : s[i] # ":" THEN <<s>>
  ELSE LET i == CHOOSE k \in 1..Len(s) :
                  s[k] = ":" /\ \A j \in 1..(k - 1) : s[j] # ":"
       IN <<SubSeq(s, 1, i - 1)>> \o Split(SubSeq(s, i + 1, Len(s)))

\* strings.TrimSuffix(s, c) for a one-character suffix c
TrimSuffix(s, c) ==
  IF Len(s) > 0 /\ s[Len(s)] = c THEN SubSeq(s, 1, Len(s) - 1) ELSE s

\* strconv.ParseFloat(s, 64) on texts over digits, sign and letters: an
\* optional sign followed by one or more decimal digits is a number, any
\* other text over this alphabet is a syntax error.
ParseFloat(s) ==
  LET signed == Len(s) > 0 /\ s[1] \in {"+", "-"}
      body   == IF signed THEN Tail(s) ELSE s
      ok     == body # <<>> /\ \A i \in 1..Len(body) : body[i] \in Digits
      sign   == IF signed /\ s[1] = "-" THEN -1 ELSE 1
  IN [err |-> ~ok, val |-> IF ok THEN sign * DecVal(body) ELSE 0]

parseUptimeToSeconds(uptime) ==
  LET parts   == Split(uptime)
      hours   == ParseFloat(TrimSuffix(parts[1], "h"))
      minutes == ParseFloat(TrimSuffix(parts[2], "m"))
      seconds == ParseFloat(TrimSuffix(parts[3], "s"))
  IN IF Len(parts) # 3 THEN 0
     ELSE IF hours.err THEN 0
     ELSE IF minutes.err THEN 0
     ELSE IF seconds.err THEN 0
     ELSE hours.val * 3600 + minutes.val * 60 + seconds.val

\* ----------------------------------------------------------------- base64
\* Byte values of the characters that occur in the modelled credentials.
Ord(c) ==
  CASE c = ":" -> 58 [] c = "u" -> 117 [] c = "p" -> 112

\* The alphabet of base64.StdEncoding.
B64Alphabet ==
  << "A", "B", "C", "D", "E", "F", "G", "H", "I", "J", "K", "L", "M",
     "N", "O", "P", "Q", "R", "S", "T", "U", "V", "W", "X", "Y", "Z",
     "a", "b", "c", "d", "e", "f", "g", "h", "i", "j", "k", "l", "m",
     "n", "o", "p", "q", "r", "s", "t", "u", "v", "w", "x", "y", "z",
     "0", "1", "2", "3", "4", "5", "6", "7", "8", "9", "+", "/" >>

B64Char(v) == B64Alphabet[v + 1]

\* base64.StdEncoding.EncodeToString on a sequence of byte values
RECURSIVE EncodeToString(_)
EncodeToString(b) ==
  IF Len(b) = 0 THEN <<>>
  ELSE IF Len(b) = 1 THEN
    << B64Char(b[1] \div 4), B64Char((b[1] % 4) * 16), "=", "=" >>
  ELSE IF Len(b) = 2 THEN
    << B64Char(b[1] \div 4),
       B64Char((b[1] % 4) * 16 + b[2] \div 16),
       B64Char((b[2] % 16) * 4), "=" >>
  ELSE
    << B64Char(b[1] \div 4),
       B64Char((b[1] % 4) * 16 + b[2] \div 16),
       B64Char((b[2] % 16) * 4 + b[3] \div 64),
       B64Char(b[3] % 64) >> \o EncodeToString(SubSeq(b, 4, Len(b)))

getBasicAuthHeader(user, pass) ==
  LET auth == user \o <<":">> \o pass
      encodedAuth == EncodeToString([i \in 1..Len(auth) |-> Ord(auth[i])])
  IN <<"B", "a", "s", "i", "c", " ">> \o encodedAuth

\* --------------------------------------------------------------- collector
\* A command output is [valid, data]: whether the bytes are valid JSON and
\* the value they decode to.  json.Unmarshal into a nil slice: an output
\* that is not valid JSON leaves the slice nil and the error is discarded.
Unmarshal(output) == IF output.valid THEN output.data ELSE <<>>

\* Bytes that are not JSON (also the empty output).
NotJSON == [valid |-> FALSE, data |-> <<>>]

RECURSIVE filterUSBInterfaces(_)
filterUSBInterfaces(ifdevData) ==
  IF ifdevData = <<>> THEN <<>>
  ELSE LET item == Head(ifdevData)
           rest == filterUSBInterfaces(Tail(ifdevData))
       IN IF Len(item.Device) > 2 /\ SubSeq(item.Device, 1, 3) = <<"u", "s", "b">>
          THEN <<item>> \o rest
          ELSE rest

\* parseNetworkTraffic: the ifconfig output is a sequence of stanzas; a
\* stanza is [name, hasBytes, rx, tx]: the first token of its first line,
\* whether one of its lines matches the "RX bytes:.. TX bytes:.." pattern,
\* and the two numbers of the first such line.  A later stanza of the same
\* name overwrites an earlier one; a stanza without a match adds nothing.
RECURSIVE parseNetworkTraffic(_)
parseNetworkTraffic(blocks) ==
  IF blocks = <<>> THEN [d \in {} |-> 0]
  ELSE LET n    == Len(blocks)
           prev == parseNetworkTraffic(SubSeq(blocks, 1, n - 1))
           b    == blocks[n]
       IN IF b.hasBytes
          THEN [d \in DOMAIN prev \cup {b.name} |->
                  IF d = b.name THEN [Interface |-> b.name, RX |-> b.rx, TX |-> b.tx]
                  ELSE prev[d]]
          ELSE prev

\* ------------------------------------------------------------------ merger
\* The zero value of NetworkTraffic, read from a map that has no entry.
ZeroTraffic == [RX |-> 0, TX |-> 0]

\* ifdevMap of mergeData: interface name -> Ifdev, later entries overwrite
RECURSIVE IfdevMap(_)
IfdevMap(ifdevData) ==
  IF ifdevData = <<>> THEN [k \in {} |-> 0]
  ELSE LET n    == Len(ifdevData)
           prev == IfdevMap(SubSeq(ifdevData, 1, n - 1))
           e    == ifdevData[n]
       IN [k \in DOMAIN prev \cup {e.Interface} |->
             IF k = e.Interface THEN e ELSE prev[k]]

\* mergeData that drops a record whose device has no traffic entry
RECURSIVE mergeDataDropOnMiss(_, _, _)
mergeDataDropOnMiss(ifdevData, mwan3Data, networkTrafficData) ==
  IF mwan3Data = <<>> THEN <<>>
  ELSE LET ifdevMap == IfdevMap(ifdevData)
           n        == Len(mwan3Data)
           mwan3    == mwan3Data[n]
           combined == mergeDataDropOnMiss(ifdevData, SubSeq(mwan3Data, 1, n - 1),
                                           networkTrafficData)
       IN IF mwan3.Interface \in DOMAIN ifdevMap
             /\ ifdevMap[mwan3.Interface].Device \in DOMAIN networkTrafficData
          THEN LET ifdev   == ifdevMap[mwan3.Interface]
                   traffic == networkTrafficData[ifdev.Device]
               IN Append(combined,
                    [Interface |-> ifdev.Interface, Device |-> ifdev.Device,
                     Status |-> mwan3.Status, OnlineTime |-> mwan3.OnlineTime,
                     Uptime |-> mwan3.Uptime, Tracking |-> mwan3.Tracking,
                     RX |-> traffic.RX, TX |-> traffic.TX])
          ELSE combined

RECURSIVE mergeData(_, _, _)
mergeData(ifdevData, mwan3Data, networkTrafficData) ==
  IF mwan3Data = <<>> THEN <<>>
  ELSE LET ifdevMap == IfdevMap(ifdevData)
           n        == Len(mwan3Data)
           mwan3    == mwan3Data[n]
           combined == mergeData(ifdevData, SubSeq(mwan3Data, 1, n - 1),
                                 networkTrafficData)
       IN IF mwan3.Interface \in DOMAIN ifdevMap
          THEN LET ifdev   == ifdevMap[mwan3.Interface]
                   traffic == IF ifdev.Device \in DOMAIN networkTrafficData
                              THEN networkTrafficData[ifdev.Device]
                              ELSE ZeroTraffic
               IN Append(combined,
                    [Interface |-> ifdev.Interface, Device |-> ifdev.Device,
                     Status |-> mwan3.Status, OnlineTime |-> mwan3.OnlineTime,
                     Uptime |-> mwan3.Uptime, Tracking |-> mwan3.Tracking,
                     RX |-> traffic.RX, TX |-> traffic.TX])
          ELSE combined

\* ------------------------------------------------------------ input domain
usb0 == <<"u", "s", "b", "0">>
usb1 == <<"u", "s", "b", "1">>
eth0 == <<"e", "t", "h", "0">>

\* Outputs of the ifdev command: text that is not JSON, or a JSON array.
IfdevOutputs ==
  { NotJSON,
    [valid |-> TRUE,
     data |-> << [Interface |-> "wan1", Device |-> usb0],
                 [Interface |-> "wan2", Device |-> usb1] >>],
    [valid |-> TRUE,
     data |-> << [Interface |-> "wan1", Device |-> usb0],
                 [Interface |-> "wan2", Device |-> eth0] >>] }

StatusWan1 ==
  [Interface |-> "wan1", Status |-> "online",
   OnlineTime |-> <<"0", "h", ":", "1", "0", "m", ":", "0", "0", "s">>,
   Uptime |-> <<"1", "h", ":", "0", "0", "m", ":", "0", "0", "s">>,
   Tracking |-> "active"]

StatusWan2 ==
  [Interface |-> "wan2", Status |-> "disabled",
   OnlineTime |-> <<"x">>,
   Uptime |-> <<"0", "h", ":", "0", "2", "m", ":", "0", "3", "s">>,
   Tracking |-> "down"]

StatusWan3 ==
  [Interface |-> "wan3", Status |-> "offline",
   OnlineTime |-> <<>>, Uptime |-> <<>>, Tracking |-> "active"]

\* Outputs of the mwan3ifstatus command.
Mwan3ifstatusOutputs ==
  { NotJSON,
    [valid |-> TRUE, data |-> <<StatusWan1, StatusWan2>>],
    [valid |-> TRUE, data |-> <<StatusWan3, StatusWan1>>] }

\* Outcomes of cmd.Output() for ifconfig: an error, or the output as
\* stanzas (see parseNetworkTraffic).
IfconfigResults ==
  { [err |-> TRUE, out |-> <<>>],
    [err |-> FALSE,
     out |-> << [name |-> usb0, hasBytes |-> TRUE, rx |-> 1000, tx |-> 2000] >>],
    [err |-> FALSE,
     out |-> << [name |-> usb0, hasBytes |-> FALSE, rx |-> 0, tx |-> 0],
                [name |-> usb1, hasBytes |-> TRUE, rx |-> 5, tx |-> 6] >>] }

\* Outcomes of one ifusb call: the command fails, its output is not JSON,
\* or it is a JSON object with a description.
IfusbResults ==
  { [err |-> TRUE, valid |-> FALSE, description |-> ""],
    [err |-> FALSE, valid |-> FALSE, description |-> ""],
    [err |-> FALSE, valid |-> TRUE, description |-> "Pixel"] }

\* Environment values of PUSH_URL, PUSH_INTERVAL_SECONDS (after Atoi),
\* PUSH_USERNAME and PUSH_PASSWORD.
PushURLs == {"", "http://gw"}
PushIntervals == {0, 1}
Usernames == {<<>>, <<"u">>}
Passwords == {<<>>, <<"p">>}

\* ------------------------------------------------------------------- state
VARIABLES
  pushIntervalSeconds, pushURL, username, password,  \* package variables
  pc,                 \* position of main
  exitCode,           \* exit status of the process, -1 while it runs
  tickerRunning,      \* the ticker created by time.NewTicker, until Stop
  sigChan,            \* number of signals buffered in sigChan
  clock,              \* last reading of time.Now
  invoked,            \* commands executed in the current cycle
  logged,             \* messages logged in the current cycle
  ifdevOutput, mwan3ifstatusOutput,
  networkTraffic, networkTrafficErr,
  ifdevData, mwan3ifstatusData,
  combinedData,
  idx,                \* position of the range loop over combinedData
  timeSeriesList,
  sent,               \* write requests handed to the network this cycle
  uptime, seconds     \* argument and result of parseUptimeToSeconds

vars ==
  << pushIntervalSeconds, pushURL, username, password, pc, exitCode,
     tickerRunning, sigChan, clock, invoked, logged, ifdevOutput,
     mwan3ifstatusOutput, networkTraffic, networkTrafficErr, ifdevData,
     mwan3ifstatusData, combinedData, idx, timeSeriesList, sent,
     uptime, seconds >>

config == << pushIntervalSeconds, pushURL, username, password >>

cycleVars ==
  << invoked, logged, ifdevOutput, mwan3ifstatusOutput, networkTraffic,
     networkTrafficErr, ifdevData, mwan3ifstatusData, combinedData, idx,
     timeSeriesList, sent >>

harnessVars == << uptime, seconds >>

\* Capacity of sigChan: make(chan os.Signal, 1)
SigChanCap == 1

\* Positions of main inside one cycle (the ticker.C case of the select).
Running == {"ifdev", "mwan3ifstatus", "traffic", "records", "push"}
InLoop == {"Idle"} \cup Running

\* The locals of the ticker.C case before any of them is assigned.
FreshCycle ==
  /\ invoked = {}
  /\ logged = <<>>
  /\ ifdevOutput = NotJSON
  /\ mwan3ifstatusOutput = NotJSON
  /\ networkTraffic = <<>>
  /\ networkTrafficErr = FALSE
  /\ ifdevData = <<>>
  /\ mwan3ifstatusData = <<>>
  /\ combinedData = <<>>
  /\ idx = 0
  /\ timeSeriesList = <<>>
  /\ sent = <<>>

Init ==
  /\ pushIntervalSeconds \in PushIntervals
  /\ pushURL \in PushURLs
  /\ username \in Usernames
  /\ password \in Passwords
  /\ pc = "start"
  /\ exitCode = -1
  /\ tickerRunning = FALSE
  /\ sigChan = 0
  /\ clock = 0
  /\ FreshCycle
  /\ uptime = <<>>
  /\ seconds = 0

\* ------------------------------------------------------------ metric build
MetricNames ==
  << "tether_iface_up_time", "tether_iface_online_time",
     "tether_iface_status_online", "tether_iface_status_enabled",
     "tether_iface_status_tracking", "tether_iface_tx", "tether_iface_rx" >>

\* Value of the k-th time series appended for one combined record.
MetricValue(data, k) ==
  CASE k = 1 -> parseUptimeToSeconds(data.Uptime)
    [] k = 2 -> parseUptimeToSeconds(data.OnlineTime)
    [] k = 3 -> IF data.Status = "online" THEN 1 ELSE 0
    [] k = 4 -> IF data.Status # "disabled" THEN 1 ELSE 0
    [] k = 5 -> IF data.Tracking = "active" THEN 1 ELSE 0
    [] k = 6 -> data.TX
    [] k = 7 -> data.RX

\* The seven appends of one loop iteration; now[k] is the reading of
\* time.Now() evaluated inside the k-th composite literal.
RecordSeries(data, device, now) ==
  [k \in 1..Len(MetricNames) |->
     [Name |-> MetricNames[k], Device |-> device, Interface |-> data.Interface,
      Timestamp |-> now[k], Value |-> MetricValue(data, k)]]

\* Successive readings of the clock: none earlier than the one before it.
ClockReadings(from) ==
  { now \in [1..Len(MetricNames) -> from..MaxClock] :
      \A k \in 1..(Len(MetricNames) - 1) : now[k] <= now[k + 1] }

\* ----------------------------------------------------------------- startup
validateParameters ==
  IF pushURL = "" THEN "PUSH_URL environment variable is not set"
  ELSE IF pushIntervalSeconds <= 0
  THEN "PUSH_INTERVAL_SECONDS environment variable is not set or has an invalid value"
  ELSE "nil"

\* main up to the loop: log.Fatalf on a validation error, otherwise the
\* signal channel is registered and the ticker created.
Startup ==
  /\ pc = "start"
  /\ IF validateParameters # "nil"
     THEN /\ pc' = "Fatal"
          /\ exitCode' = 1
          /\ UNCHANGED tickerRunning
     ELSE /\ pc' = "Idle"
          /\ tickerRunning' = TRUE
          /\ UNCHANGED exitCode
  /\ UNCHANGED << config, sigChan, clock, cycleVars, harnessVars >>

\* signal.Notify relays SIGINT/SIGTERM with a non-blocking send: the signal
\* is buffered if sigChan has room and dropped otherwise.
DeliverSignal ==
  /\ pc \in InLoop
  /\ sigChan' = IF sigChan < SigChanCap THEN sigChan + 1 ELSE sigChan
  /\ UNCHANGED << config, pc, exitCode, tickerRunning, clock, cycleVars,
                  harnessVars >>

\* ------------------------------------------------------------- select loop
\* case <-ticker.C: a new iteration starts with fresh locals.
Tick ==
  /\ pc = "Idle"
  /\ tickerRunning
  /\ pc' = "ifdev"
  /\ invoked' = {}
  /\ logged' = <<>>
  /\ ifdevOutput' = NotJSON
  /\ mwan3ifstatusOutput' = NotJSON
  /\ networkTraffic' = <<>>
  /\ networkTrafficErr' = FALSE
  /\ ifdevData' = <<>>
  /\ mwan3ifstatusData' = <<>>
  /\ combinedData' = <<>>
  /\ idx' = 0
  /\ timeSeriesList' = <<>>
  /\ sent' = <<>>
  /\ UNCHANGED << config, exitCode, tickerRunning, sigChan, clock, harnessVars >>

\* the signal case that leaves the select but not the for loop
HandleSignalBreakSelect ==
  /\ pc = "Idle"
  /\ sigChan > 0
  /\ sigChan' = sigChan - 1
  /\ UNCHANGED << config, pc, exitCode, tickerRunning, clock, cycleVars,
                  harnessVars >>

\* case sig := <-sigChan: break loop; the deferred ticker.Stop runs and
\* main returns.
HandleSignal ==
  /\ pc = "Idle"
  /\ sigChan > 0
  /\ sigChan' = sigChan - 1
  /\ pc' = "ShuttingDown"
  /\ tickerRunning' = FALSE
  /\ exitCode' = 0
  /\ UNCHANGED << config, clock, cycleVars, harnessVars >>

\* executeShellCommand("ifdev"); on an error: log and break (out of the
\* select).
ExecIfdev ==
  /\ pc = "ifdev"
  /\ invoked' = invoked \cup {"ifdev"}
  /\ \/ /\ logged' = Append(logged, "Error executing ifdev")
        /\ pc' = "Idle"
        /\ UNCHANGED ifdevOutput
     \/ \E out \in IfdevOutputs :
          /\ ifdevOutput' = out
          /\ pc' = "mwan3ifstatus"
          /\ UNCHANGED logged
  /\ UNCHANGED << config, exitCode, tickerRunning, sigChan, clock,
                  mwan3ifstatusOutput, networkTraffic, networkTrafficErr,
                  ifdevData, mwan3ifstatusData, combinedData, idx,
                  timeSeriesList, sent, harnessVars >>

\* mwan3ifstatus failure that ends the process (log.Fatalln)
ExecMwan3ifstatusFatal ==
  /\ pc = "mwan3ifstatus"
  /\ invoked' = invoked \cup {"mwan3ifstatus"}
  /\ \/ /\ logged' = Append(logged, "Error executing mwan3ifstatus")
        /\ pc' = "Fatal"
        /\ exitCode' = 1
        /\ UNCHANGED mwan3ifstatusOutput
     \/ \E out \in Mwan3ifstatusOutputs :
          /\ mwan3ifstatusOutput' = out
          /\ pc' = "traffic"
          /\ UNCHANGED << logged, exitCode >>
  /\ UNCHANGED << config, tickerRunning, sigChan, clock, ifdevOutput,
                  networkTraffic, networkTrafficErr, ifdevData,
                  mwan3ifstatusData, combinedData, idx, timeSeriesList, sent,
                  harnessVars >>

\* executeShellCommand("mwan3ifstatus"); on an error: log and break.
ExecMwan3ifstatus ==
  /\ pc = "mwan3ifstatus"
  /\ invoked' = invoked \cup {"mwan3ifstatus"}
  /\ \/ /\ logged' = Append(logged, "Error executing mwan3ifstatus")
        /\ pc' = "Idle"
        /\ UNCHANGED mwan3ifstatusOutput
     \/ \E out \in Mwan3ifstatusOutputs :
          /\ mwan3ifstatusOutput' = out
          /\ pc' = "traffic"
          /\ UNCHANGED logged
  /\ UNCHANGED << config, exitCode, tickerRunning, sigChan, clock, ifdevOutput,
                  networkTraffic, networkTrafficErr, ifdevData,
                  mwan3ifstatusData, combinedData, idx, timeSeriesList, sent,
                  harnessVars >>

\* getNetworkTraffic: nil map and an error when ifconfig fails, the parsed
\* counters otherwise.
getNetworkTraffic(result) ==
  IF result.err THEN [traffic |-> <<>>, err |-> TRUE]
  ELSE [traffic |-> parseNetworkTraffic(result.out), err |-> FALSE]

\* getNetworkTraffic, the two json.Unmarshal calls, filterUSBInterfaces
\* and mergeData; the range loop is entered when combinedData has elements.
CollectAndMerge ==
  /\ pc = "traffic"
  /\ invoked' = invoked \cup {"ifconfig"}
  /\ \E result \in IfconfigResults :
       LET r == getNetworkTraffic(result)
           filtered == filterUSBInterfaces(Unmarshal(ifdevOutput))
           statuses == Unmarshal(mwan3ifstatusOutput)
           merged   == mergeData(filtered, statuses, r.traffic)
       IN /\ networkTraffic' = r.traffic
          /\ networkTrafficErr' = r.err
          /\ logged' = IF r.err THEN Append(logged, "Error getting network traffic")
                       ELSE logged
          /\ ifdevData' = filtered
          /\ mwan3ifstatusData' = statuses
          /\ combinedData' = merged
          /\ idx' = 1
          /\ pc' = IF merged = <<>> THEN "push" ELSE "records"
  /\ UNCHANGED << config, exitCode, tickerRunning, sigChan, clock, ifdevOutput,
                  mwan3ifstatusOutput, timeSeriesList, sent, harnessVars >>

\* getUSBDevice(data.Device): the ifusb command fails or its output does
\* not decode (an error), or the description is returned.
getUSBDevice(result) ==
  IF result.err THEN [device |-> "", err |-> TRUE]
  ELSE IF ~result.valid THEN [device |-> "", err |-> TRUE]
  ELSE [device |-> result.description, err |-> FALSE]

\* where the range loop goes after the iteration at position i
AfterRecord(i) == IF i < Len(combinedData) THEN "records" ELSE "push"

\* loop body in which a failed label lookup leaves the loop (break)
ProcessRecordBreak ==
  /\ pc = "records"
  /\ invoked' = invoked \cup {"ifusb"}
  /\ \E result \in IfusbResults :
       LET data == combinedData[idx]
           r    == getUSBDevice(result)
       IN IF r.err
          THEN /\ logged' = Append(logged, "Error getting USB device for interface")
               /\ idx' = Len(combinedData)
               /\ pc' = "push"
               /\ UNCHANGED << timeSeriesList, clock >>
          ELSE \E now \in ClockReadings(clock) :
                 /\ timeSeriesList' = timeSeriesList \o RecordSeries(data, r.device, now)
                 /\ clock' = now[Len(MetricNames)]
                 /\ idx' = idx + 1
                 /\ pc' = AfterRecord(idx)
                 /\ UNCHANGED logged
  /\ UNCHANGED << config, exitCode, tickerRunning, sigChan, ifdevOutput,
                  mwan3ifstatusOutput, networkTraffic, networkTrafficErr,
                  ifdevData, mwan3ifstatusData, combinedData, sent,
                  harnessVars >>

\* One iteration of the range loop over combinedData.
ProcessRecord ==
  /\ pc = "records"
  /\ invoked' = invoked \cup {"ifusb"}
  /\ \E result \in IfusbResults :
       LET data == combinedData[idx]
           r    == getUSBDevice(result)
       IN IF r.err
          THEN /\ logged' = Append(logged, "Error getting USB device for interface")
               /\ UNCHANGED << timeSeriesList, clock >>
          ELSE \E now \in ClockReadings(clock) :
                 /\ timeSeriesList' = timeSeriesList \o RecordSeries(data, r.device, now)
                 /\ clock' = now[Len(MetricNames)]
                 /\ UNCHANGED logged
  /\ idx' = idx + 1
  /\ pc' = AfterRecord(idx)
  /\ UNCHANGED << config, exitCode, tickerRunning, sigChan, ifdevOutput,
                  mwan3ifstatusOutput, networkTraffic, networkTrafficErr,
                  ifdevData, mwan3ifstatusData, combinedData, sent,
                  harnessVars >>

\* promremote.NewClient rejects a configuration without a write URL.
NewClientErr == pushURL = ""

\* The request of client.WriteTimeSeries with the options of pushMetrics.
WriteRequest(list) ==
  [URL |-> pushURL,
   Headers |-> [h \in {"Authorization"} |-> getBasicAuthHeader(username, password)],
   Body |-> list]

\* pushMetrics(timeSeriesList), after which the select is reached again.
PushMetrics ==
  /\ pc = "push"
  /\ IF NewClientErr
     THEN /\ logged' = Append(logged, "Error creating remote client")
          /\ UNCHANGED sent
     ELSE /\ sent' = Append(sent, WriteRequest(timeSeriesList))
          /\ \/ logged' = Append(logged, "Error writing metrics")
             \/ UNCHANGED logged
  /\ pc' = "Idle"
  /\ UNCHANGED << config, exitCode, tickerRunning, sigChan, clock, invoked,
                  ifdevOutput, mwan3ifstatusOutput, networkTraffic,
                  networkTrafficErr, ifdevData, mwan3ifstatusData, combinedData,
                  idx, timeSeriesList, harnessVars >>

Next ==
  \/ Startup
  \/ DeliverSignal
  \/ Tick
  \/ HandleSignal
  \/ ExecIfdev
  \/ ExecMwan3ifstatus
  \/ CollectAndMerge
  \/ ProcessRecord
  \/ PushMetrics

Spec == Init /\ [][Next]_vars

\* The select chooses among its ready cases at random, so the signal case
\* is taken eventually when a signal stays buffered; every external call
\* of a cycle returns.
FairSpec ==
  /\ Spec
  /\ WF_vars(Startup)
  /\ WF_vars(ExecIfdev)
  /\ WF_vars(ExecMwan3ifstatus)
  /\ WF_vars(CollectAndMerge)
  /\ WF_vars(ProcessRecord)
  /\ WF_vars(PushMetrics)
  /\ WF_vars(Tick \/ HandleSignal)
  /\ SF_vars(HandleSignal)

\* --------------------------------------------------- harness for mergeData
InvRecords == [Interface : {"wan1", "wan2"}, Device : {usb0, usb1}]

StatRecords ==
  { [StatusWan1 EXCEPT !.Interface = i, !.Status = st] :
      i \in {"wan1", "wan2", "wan3"}, st \in {"online", "disabled"} }

\* Traffic maps: any subset of the devices has an entry; the map without
\* entries is also the nil map of a failed collection.
DeviceCounters(d) ==
  IF d = usb0 THEN [Interface |-> d, RX |-> 1000, TX |-> 2000]
  ELSE [Interface |-> d, RX |-> 5, TX |-> 6]

TrafficMaps == { [d \in D |-> DeviceCounters(d)] : D \in SUBSET {usb0, usb1} }

SeqsUpTo(S, n) == UNION { [1..m -> S] : m \in 0..n }

MergeInit ==
  /\ pushIntervalSeconds = 1
  /\ pushURL = "http://gw"
  /\ username = <<>>
  /\ password = <<>>
  /\ pc = "merge"
  /\ exitCode = -1
  /\ tickerRunning = TRUE
  /\ sigChan = 0
  /\ clock = 0
  /\ invoked = {}
  /\ logged = <<>>
  /\ ifdevOutput = NotJSON
  /\ mwan3ifstatusOutput = NotJSON
  /\ networkTraffic \in TrafficMaps
  /\ networkTrafficErr = FALSE
  /\ ifdevData \in SeqsUpTo(InvRecords, MaxInv)
  /\ mwan3ifstatusData \in SeqsUpTo(StatRecords, MaxStat)
  /\ combinedData = <<>>
  /\ idx = 0
  /\ timeSeriesList = <<>>
  /\ sent = <<>>
  /\ uptime = <<>>
  /\ seconds = 0

MergeApply ==
  /\ pc = "merge"
  /\ combinedData' = mergeData(ifdevData, mwan3ifstatusData, networkTraffic)
  /\ pc' = "merged"
  /\ UNCHANGED << config, exitCode, tickerRunning, sigChan, clock, invoked,
                  logged, ifdevOutput, mwan3ifstatusOutput, networkTraffic,
                  networkTrafficErr, ifdevData, mwan3ifstatusData, idx,
                  timeSeriesList, sent, harnessVars >>

MergeNext == MergeApply

MergeSpec == MergeInit /\ [][MergeNext]_vars

\* ---------------------------------------- harness for parseUptimeToSeconds
Segments ==
  { <<>>, <<"2", "h">>, <<"0", "3", "m">>, <<"0", "4", "s">>, <<"7">>,
    <<"-", "1", "h">>, <<"x">>, <<"1", "h", "h">> }

RECURSIVE JoinColon(_)
JoinColon(parts) ==
  IF Len(parts) = 1 THEN parts[1]
  ELSE parts[1] \o <<":">> \o JoinColon(Tail(parts))

DurationTexts ==
  { JoinColon(parts) : parts \in UNION { [1..n -> Segments] : n \in 1..MaxParts } }

DurationInit ==
  /\ pushIntervalSeconds = 1
  /\ pushURL = "http://gw"
  /\ username = <<>>
  /\ password = <<>>
  /\ pc = "parse"
  /\ exitCode = -1
  /\ tickerRunning = TRUE
  /\ sigChan = 0
  /\ clock = 0
  /\ FreshCycle
  /\ uptime \in DurationTexts
  /\ seconds = 0

DurationApply ==
  /\ pc = "parse"
  /\ seconds' = parseUptimeToSeconds(uptime)
  /\ pc' = "parsed"
  /\ UNCHANGED << config, exitCode, tickerRunning, sigChan, clock, cycleVars,
                  uptime >>

DurationNext == DurationApply

DurationSpec == DurationInit /\ [][DurationNext]_vars

\* ================================================================== claims
Range(f) == { f[i] : i \in DOMAIN f }

\* A cycle has run to its end: main is back at the select and at least one
\* command was executed since the last tick.
CycleEnded == pc = "Idle" /\ invoked # {}

DataSources == {"ifdev", "mwan3ifstatus", "ifconfig"}

UsbErrors ==
  Cardinality({ i \in DOMAIN logged :
                  logged[i] = "Error getting USB device for interface" })

\* C1: within one cycle the three data-source invocations are independent:
\* whichever of them fails, all three sources are invoked, every failure is
\* logged, and the cycle still reaches the push.
C1_SourcesIndependent ==
  CycleEnded =>
    /\ DataSources \subseteq invoked
    /\ Len(sent) = 1

\* C2: once the loop is entered no failure terminates the process: every
\* step taken inside the loop stays inside it, except the signal case taken
\* at the select; the ticker keeps running; a running cycle always comes
\* back to the select; and a cycle whose failover-status invocation failed
\* has built no metric point and written nothing.
StaysInLoop ==
  pc \in InLoop =>
    \/ pc' \in InLoop
    \/ pc = "Idle" /\ sigChan > 0 /\ pc' = "ShuttingDown"

C2_LoopNeverAborts ==
  /\ [][StaysInLoop]_vars
  /\ [](pc \in InLoop => tickerRunning /\ exitCode = -1)
  /\ []((pc = "Idle" /\ "Error executing mwan3ifstatus" \in Range(logged))
          => timeSeriesList = <<>> /\ sent = <<>>)
  /\ \A p \in Running : (pc = p) ~> (pc = "Idle")

C2_Witness ==
  /\ pc = "Idle"
  /\ tickerRunning
  /\ "Error executing mwan3ifstatus" \in Range(logged)

\* C3: a signal received while main waits at the select or while a cycle
\* runs leads to shutdown: the loop is left, the ticker stopped and the
\* process exits with status 0.
C3_SignalLeadsToShutdown ==
  (sigChan > 0) ~> (pc = "ShuttingDown" /\ ~tickerRunning /\ exitCode = 0)

C3_Witness == sigChan > 0 /\ pc = "records" /\ timeSeriesList # <<>>

\* C4: every cycle started by a tick performs exactly one write, whose body
\* is the whole list of metric points built in that cycle.
C4_OneWritePerCycle ==
  CycleEnded => Len(sent) = 1 /\ sent[1].Body = timeSeriesList

\* C5: a combined record that yields metric points yields 5 of them, none
\* of them a traffic metric, when traffic collection failed in the cycle,
\* and 7 when it succeeded.
RecordYieldsByTraffic ==
  Len(timeSeriesList') > Len(timeSeriesList) =>
    LET new == SubSeq(timeSeriesList', Len(timeSeriesList) + 1,
                      Len(timeSeriesList'))
    IN IF networkTrafficErr
       THEN /\ Len(new) = 5
            /\ \A i \in 1..Len(new) :
                 new[i].Name \notin {"tether_iface_tx", "tether_iface_rx"}
       ELSE Len(new) = 7

C5_TrafficPointsOnlyOnSuccess == [][RecordYieldsByTraffic]_vars

\* C6: all metric points built for one combined record (appended by one
\* iteration of the loop) carry the same timestamp.
AppendedShareTimestamp ==
  \A i, j \in (Len(timeSeriesList) + 1)..Len(timeSeriesList') :
    timeSeriesList'[i].Timestamp = timeSeriesList'[j].Timestamp

C6_SharedTimestamp == [][AppendedShareTimestamp]_vars

\* C7: mergeData is the inner join in the order of statuses: a status
\* record is in the output iff its interface is an inventory key, each such
\* record yields one combined record at its rank among them, carrying the
\* status fields, the device of the (last) inventory entry of that
\* interface, and the traffic entry of that device or 0/0 without one.
InventoryKeys == { ifdevData[j].Interface : j \in DOMAIN ifdevData }

Hits == { i \in DOMAIN mwan3ifstatusData :
            mwan3ifstatusData[i].Interface \in InventoryKeys }

HitRank(i) == Cardinality({ h \in Hits : h <= i })

InventoryDevice(name) ==
  LET last == CHOOSE j \in DOMAIN ifdevData :
                /\ ifdevData[j].Interface = name
                /\ \A k \in DOMAIN ifdevData :
                     ifdevData[k].Interface = name => k <= j
  IN ifdevData[last].Device

C7_MergeIsInnerJoin ==
  pc = "merged" =>
    /\ Len(combinedData) = Cardinality(Hits)
    /\ \A i \in Hits :
         LET st  == mwan3ifstatusData[i]
             c   == combinedData[HitRank(i)]
             dev == InventoryDevice(st.Interface)
         IN /\ c.Interface = st.Interface
            /\ c.Status = st.Status
            /\ c.OnlineTime = st.OnlineTime
            /\ c.Uptime = st.Uptime
            /\ c.Tracking = st.Tracking
            /\ c.Device = dev
            /\ IF dev \in DOMAIN networkTraffic
               THEN c.RX = networkTraffic[dev].RX /\ c.TX = networkTraffic[dev].TX
               ELSE c.RX = 0 /\ c.TX = 0

C7_Witness ==
  /\ pc = "merged"
  /\ Len(mwan3ifstatusData) = 2
  /\ Len(combinedData) = 1
  /\ combinedData[1].Interface = mwan3ifstatusData[2].Interface
  /\ combinedData[1].Device \notin DOMAIN networkTraffic
  /\ networkTraffic # <<>>
  /\ combinedData[1].RX = 0

\* C8: a failed device-label lookup skips only its record: the list handed
\* to the push consists of the full block of metric points of every other
\* combined record, in order, and the push takes place.
C8_LabelFailureSkipsOneRecord ==
  (pc \in {"push", "Idle"} /\ combinedData # <<>>) =>
    /\ \E S \in SUBSET (DOMAIN combinedData) :
         /\ Cardinality(S) = Len(combinedData) - UsbErrors
         /\ Len(timeSeriesList) = Len(MetricNames) * Cardinality(S)
         /\ \A i \in S : \A k \in 1..Len(MetricNames) :
              LET rank == Cardinality({ h \in S : h < i })
                  pt   == timeSeriesList[Len(MetricNames) * rank + k]
              IN /\ pt.Interface = combinedData[i].Interface
                 /\ pt.Name = MetricNames[k]
    /\ pc = "Idle" => Len(sent) = 1 /\ sent[1].Body = timeSeriesList

C8_Witness ==
  /\ pc = "Idle"
  /\ Len(combinedData) = 2
  /\ UsbErrors = 1
  /\ Len(timeSeriesList) = Len(MetricNames)
  /\ timeSeriesList[1].Interface = "wan2"
  /\ Len(sent) = 1

\* C9: a write request has an Authorization header only if credentials are
\* configured, and then it is the Basic credential built from them.
C9_AuthOnlyIfConfigured ==
  \A i \in DOMAIN sent :
    /\ (username = <<>> /\ password = <<>>) =>
         "Authorization" \notin DOMAIN sent[i].Headers
    /\ (username = <<"u">> /\ password = <<"p">>) =>
         /\ "Authorization" \in DOMAIN sent[i].Headers
         /\ sent[i].Headers["Authorization"] =
              <<"B", "a", "s", "i", "c", " ", "d", "T", "p", "w">>

\* C10: the duration parser never returns a negative value, returns 0 for
\* a text that does not have three colon-separated segments, and returns
\* hours*3600 + minutes*60 + seconds for a well-formed text.
Colons(text) == Cardinality({ i \in DOMAIN text : text[i] = ":" })

C10_DurationNonNegative ==
  pc = "parsed" =>
    /\ seconds >= 0
    /\ Colons(uptime) # 2 => seconds = 0
    /\ uptime = <<"2", "h", ":", "0", "3", "m", ":", "0", "4", "s">>
         => seconds = 7384

====
